---- MODULE Spec2Model ----
(***************************************************************************)
(* Model of src/src/compare.c: writeToFile, newData, freeData and the      *)
(* orchestrator compareAndReport.                                          *)
(*                                                                         *)
(* Numbers: a double is modelled as an integer count of units of 1e-10,    *)
(* so the tolerance of equ() is one unit and the six decimals that "%lf"   *)
(* prints are a multiple of 10000 units.                                   *)
(***************************************************************************)
EXTENDS Integers, Sequences, FiniteSets, TLC

\* ------------------------------------------------------------- bounds
\* longest input curve
MaxLen == 2
\* largest x value of an input sample (units of 1e-10)
MaxX == 2

\* ------------------------------------------------- program constants
\* 1e-10, the tolerance of equ(), in units of 1e-10
EquTol == 1
\* 1e-6, the resolution of "%lf", in units of 1e-10
FmtUnit == 10000
\* modulus of size_t arithmetic (the code's is 2^64; any modulus above the
\* curve lengths puts n - 1 of an empty curve outside the curve alike)
SizeMod == 65536

\* ------------------------------------------------------------ helpers
Abs(a) == IF a >= 0 THEN a ELSE -a

Min2(a, b) == IF a <= b THEN a ELSE b

\* y values of input samples
YVals == {0, 3}

\* values an out-of-bounds or wild read may yield
Garbage == 0..MaxX

EmptyData == [n |-> 0, x |-> << >>, y |-> << >>]

\* non-decreasing in x, as the callers of compareAndReport pass them
Sorted(s) == \A i \in 1..(Len(s) - 1) : s[i] <= s[i + 1]

XSeqs == UNION {{s \in [1..n -> 0..MaxX] : Sorted(s)} : n \in 0..MaxLen}

\* the reference arrays (tReference, yReference, nReference)
RefCurves == {[n |-> Len(xs), x |-> xs, y |-> [i \in 1..Len(xs) |-> 0]] : xs \in XSeqs}

\* the test arrays (tTest, yTest, nTest)
TestCurves ==
  {[n |-> Len(xs), x |-> xs, y |-> [i \in 1..Len(xs) |-> yv]] : xs \in XSeqs, yv \in YVals}

\* (atolx, atoly, rtolx, rtoly)
TolSet == { [atolx |-> 1, atoly |-> 1, rtolx |-> 0, rtoly |-> 1] }

\* outputDirectory, as a sequence of characters
OutDirs == { <<"o", "u", "t">> }

\* what the memory at address 0 may read as, through a NULL struct data *,
\* when the read does not fault
GarbageData == { EmptyData, [n |-> 1, x |-> <<0>>, y |-> <<0>>] }

\* "lowerCurve.n == 0 || upperCurve.n == 0" with && for ||
BandCollapsed_and(lower, upper) == lower.n = 0 /\ upper.n = 0

\* the writes' "retVal != 0" as "retVal > 0"
Failed_positive(rv) == rv > 0

\* equ with <= for <
equ_le(a, b) == Abs(a - b) <= EquTol

\* the band check without its message
MsgBandCollapsed_none == << >>

\* #define equ(a,b) (fabs((a)-(b)) < 1e-10 ? true : false)
equ(a, b) == Abs(a - b) < EquTol

\* "%lf": fixed notation, rounded to six decimals
Fmt(v) ==
  IF v >= 0 THEN ((v + FmtUnit \div 2) \div FmtUnit) * FmtUnit
  ELSE -(((-v + FmtUnit \div 2) \div FmtUnit) * FmtUnit)

\* bool addSlash = (lastChar == '/') ? false : true;
addSlash(dir) == dir[Len(dir)] # "/"

\* strcpy(fname, outDir); strcat(fname, "/"); strcat(fname, fileName);
PathOf(dir, file) == (IF addSlash(dir) THEN dir \o <<"/">> ELSE dir) \o <<file>>

\* the file of the k-th writeToFile call of compareAndReport
FileName(k) ==
  CASE k = 1 -> "reference.csv"
    [] k = 2 -> "lowerBound.csv"
    [] k = 3 -> "upperBound.csv"
    [] k = 4 -> "test.csv"
    [] OTHER -> "errors.csv"

FileNames == {FileName(k) : k \in 1..5}

\* C index n - 1 of a size_t n, as a 1-based index
LastIndex(n) == ((n + SizeMod - 1) % SizeMod) + 1

\* the values a read of dat->x[i - 1] may yield: the element, or anything
\* when the index is outside the array
ReadX(dat, i) == IF i \in 1..dat.n THEN {dat.x[i]} ELSE Garbage

InBounds(dat, i) == i \in 1..dat.n

\* the condition of line 187
BandCollapsed(lower, upper) == lower.n = 0 \/ upper.n = 0

\* the "retVal != 0" that follows validate and each writeToFile
Failed(rv) == rv # 0

\* the messages compareAndReport itself writes
MsgMinX == <<"Error: Reference and test data minimum x values are different.">>

MsgMaxX == <<"Error: Reference and test data maximum x values are different.">>

MsgBandCollapsed == <<"Error: lower or upper curve has 0 elements.">>

MsgValidate == <<"Error: Failed to run validate function.">>

MsgWrite(k) ==
  CASE k = 1 -> <<"Error: Failed to write reference.csv in output directory.">>
    [] k = 2 -> <<"Error: Failed to write lowerBound.csv in output directory.">>
    [] k = 3 -> <<"Error: Failed to write upperBound.csv in output directory.">>
    [] k = 4 -> <<"Error: Failed to write test.csv in output directory.">>
    [] OTHER -> <<"Error: Failed to write errors.csv in output directory.">>

\* -------------------------------------- collaborators (not in src/)
\* tubeSize: wx(i) = atolx + rtolx * |x(i)|, wy(i) = atoly + rtoly * |y(i)|
tubeSize(base, t) ==
  [wx |-> [i \in 1..base.n |-> t.atolx + t.rtolx * Abs(base.x[i])],
   wy |-> [i \in 1..base.n |-> t.atoly + t.rtoly * Abs(base.y[i])]]

\* calculateLower: the reference shifted down and left, or an empty curve
calculateLower(base, tube) ==
  { EmptyData,
    [n |-> base.n,
     x |-> [i \in 1..base.n |-> base.x[i] - tube.wx[i]],
     y |-> [i \in 1..base.n |-> base.y[i] - tube.wy[i]]] }

\* calculateUpper: the reference shifted up and right, or an empty curve
calculateUpper(base, tube) ==
  { EmptyData,
    [n |-> base.n,
     x |-> [i \in 1..base.n |-> base.x[i] + tube.wx[i]],
     y |-> [i \in 1..base.n |-> base.y[i] + tube.wy[i]]] }

\* twice the reference x of band sample i
RefX2(lower, upper, i) == lower.x[i] + upper.x[i]

\* the band sample that decides test abscissa xt: the first bracketing
\* segment, else an end sample whose x half-width reaches xt, else 0
Segment(lower, upper, xt) ==
  LET n  == Min2(lower.n, upper.n)
      br == {i \in 1..(n - 1) :
               RefX2(lower, upper, i) <= 2 * xt /\ 2 * xt <= RefX2(lower, upper, i + 1)}
  IN  IF n = 0 THEN 0
      ELSE IF br # {} THEN CHOOSE i \in br : \A j \in br : i <= j
      ELSE IF lower.x[1] <= xt /\ xt <= upper.x[1] THEN 1
      ELSE IF lower.x[n] <= xt /\ xt <= upper.x[n] THEN n
      ELSE 0

\* bound curve c interpolated at xt on segment i (a sample alone at an end)
Interp(lower, upper, c, i, xt) ==
  LET n == Min2(lower.n, upper.n)
      j == IF i < n THEN i + 1 ELSE i
      d == RefX2(lower, upper, j) - RefX2(lower, upper, i)
  IN  IF d = 0 \/ 2 * xt < RefX2(lower, upper, i) \/ 2 * xt > RefX2(lower, upper, j)
      THEN c.y[i]
      ELSE (c.y[i] * (RefX2(lower, upper, j) - 2 * xt)
              + c.y[j] * (2 * xt - RefX2(lower, upper, i))) \div d

\* signed distance of test sample k from the band, 0 inside it
Deviation(lower, upper, test, k) ==
  LET i  == Segment(lower, upper, test.x[k])
      lo == Interp(lower, upper, lower, i, test.x[k])
      hi == Interp(lower, upper, upper, i, test.x[k])
  IN  IF test.y[k] > hi THEN test.y[k] - hi
      ELSE IF test.y[k] < lo THEN test.y[k] - lo
      ELSE 0

RECURSIVE Violations(_, _, _, _)
\* the diff curve of the test samples k.. that lie outside the band
Violations(lower, upper, test, k) ==
  IF k > test.n THEN EmptyData
  ELSE LET rest == Violations(lower, upper, test, k + 1)
           dv   == Deviation(lower, upper, test, k)
       IN  IF dv = 0 THEN rest
           ELSE [n |-> rest.n + 1,
                 x |-> <<test.x[k]>> \o rest.x,
                 y |-> <<dv>> \o rest.y]

\* validate: status and errors.diff; non-zero when a test sample is outside
\* the band's domain or when validate cannot allocate its report
validate(lower, upper, test) ==
  { [ret |-> 1, diff |-> EmptyData] } \cup
  ( IF \E k \in 1..test.n : Segment(lower, upper, test.x[k]) = 0
    THEN {}
    ELSE { [ret |-> 0, diff |-> Violations(lower, upper, test, 1)] } )

\* newData: the copy of the arrays, or NULL with the message of the
\* allocation that failed (malloc(0) may return NULL as well)
newData(arr) ==
  { [ptr |-> "null", dat |-> EmptyData,
     msgs |-> <<"Error: Failed to allocate memory for data.">>],
    [ptr |-> "null", dat |-> EmptyData,
     msgs |-> <<"Error: Failed to allocate memory for data.x.">>],
    [ptr |-> "null", dat |-> EmptyData,
     msgs |-> <<"Error: Failed to allocate memory for data.y.">>],
    [ptr |-> "live", dat |-> arr, msgs |-> << >>] }

\* the heap objects of a run
Objs == {"baseCSV", "testCSV", "tube", "lowerCurve", "upperCurve"}

\* -------------------------------------------------------------- state
VARIABLES
  pc,          \* position in compareAndReport
  tRef,        \* (tReference, yReference, nReference)
  tTest,       \* (tTest, yTest, nTest)
  tol,         \* (atolx, atoly, rtolx, rtoly)
  outDir,      \* outputDirectory
  logState,    \* log_file: "unopened", "open", "closed"
  log,         \* what was written to log_file, each entry with the state
               \* of log_file when it was written
  logCloses,   \* number of fclose(log_file)
  baseCSV,     \* the pointer: "unset", "null", "live", "freed"
  baseDat,     \* what *baseCSV reads as
  testCSV,
  testDat,
  allocd,      \* heap objects allocated in the run
  freeCount,   \* number of releases of each heap object
  lowerCurve,
  upperCurve,
  errorsDiff,  \* validateReport.errors.diff
  retVal,      \* never read before it is assigned
  files,       \* the output directory: file name -> [exists, rows]
  dirMade,     \* mkdir_p(outDir) has succeeded
  steps,       \* the steps executed so far, each with its status
  k,           \* which of the five writeToFile calls is running
  wpc,         \* position in writeToFile
  fname,       \* the path buffer: "unset", "null", "live", "freed"
  wi,          \* the loop index i of writeToFile
  wret,        \* the return value of writeToFile
  wdata,       \* *data as it was when writeToFile was called
  nullDeref,   \* a NULL pointer has been dereferenced
  oobRead,     \* an element outside 0..n-1 of a curve has been read
  uafRead      \* fname has been read after free(fname)

vars ==
  << pc, tRef, tTest, tol, outDir, logState, log, logCloses, baseCSV, baseDat,
     testCSV, testDat, allocd, freeCount, lowerCurve, upperCurve, errorsDiff,
     retVal, files, dirMade, steps, k, wpc, fname, wi, wret, wdata,
     nullDeref, oobRead, uafRead >>

inputVars == << tRef, tTest, tol, outDir >>

logVars == << logState, log, logCloses >>

curveVars == << baseCSV, baseDat, testCSV, testDat >>

heapVars == << allocd, freeCount >>

bandVars == << lowerCurve, upperCurve, errorsDiff >>

writeVars == << k, wpc, fname, wi, wret, wdata >>

ubVars == << nullDeref, oobRead, uafRead >>

\* fprintf(log_file, ...) / fputs(..., log_file)
LogWrite(msgs) == log \o [i \in 1..Len(msgs) |-> [msg |-> msgs[i], at |-> logState]]

\* the struct data the k-th writeToFile call is handed
DataFor(kk) ==
  CASE kk = 1 -> baseDat
    [] kk = 2 -> lowerCurve
    [] kk = 3 -> upperCurve
    [] kk = 4 -> testDat
    [] OTHER -> errorsDiff

Init ==
  /\ pc = "entry"
  /\ tRef \in RefCurves
  /\ tTest \in TestCurves
  /\ tol \in TolSet
  /\ outDir \in OutDirs
  /\ logState = "unopened"
  /\ log = << >>
  /\ logCloses = 0
  /\ baseCSV = "unset"
  /\ baseDat = EmptyData
  /\ testCSV = "unset"
  /\ testDat = EmptyData
  /\ allocd = {}
  /\ freeCount = [o \in Objs |-> 0]
  /\ lowerCurve = EmptyData
  /\ upperCurve = EmptyData
  /\ errorsDiff = EmptyData
  /\ retVal = 0
  /\ files = [f \in FileNames |-> [exists |-> FALSE, rows |-> << >>]]
  /\ dirMade = FALSE
  /\ steps = << >>
  /\ k = 1
  /\ wpc = "idle"
  /\ fname = "unset"
  /\ wi = 0
  /\ wret = 0
  /\ wdata = EmptyData
  /\ nullDeref = FALSE
  /\ oobRead = FALSE
  /\ uafRead = FALSE

\* ------------------------------------------------- compareAndReport
\* init_log();
init_log ==
  /\ pc = "entry"
  /\ logState' = "open"
  /\ pc' = "newBase"
  /\ UNCHANGED << inputVars, log, logCloses, curveVars, heapVars, bandVars,
                  retVal, files, dirMade, steps, writeVars, ubVars >>

\* struct data * baseCSV = newData(tReference, yReference, nReference);
newBase ==
  /\ pc = "newBase"
  /\ \E r \in newData(tRef) :
       /\ baseCSV' = r.ptr
       /\ baseDat' = r.dat
       /\ log' = LogWrite(r.msgs)
       /\ allocd' = IF r.ptr = "live" THEN allocd \cup {"baseCSV"} ELSE allocd
  /\ pc' = "newTest"
  /\ UNCHANGED << inputVars, logState, logCloses, testCSV, testDat, freeCount,
                  bandVars, retVal, files, dirMade, steps, writeVars, ubVars >>

\* struct data * testCSV = newData(tTest, yTest, nTest);
newTest ==
  /\ pc = "newTest"
  /\ \E r \in newData(tTest) :
       /\ testCSV' = r.ptr
       /\ testDat' = r.dat
       /\ log' = LogWrite(r.msgs)
       /\ allocd' = IF r.ptr = "live" THEN allocd \cup {"testCSV"} ELSE allocd
       /\ steps' = Append(steps,
            [no |-> 1,
             status |-> IF baseCSV = "live" /\ r.ptr = "live" THEN 0 ELSE 1])
  /\ pc' = "chkMin"
  /\ UNCHANGED << inputVars, logState, logCloses, baseCSV, baseDat, freeCount,
                  bandVars, retVal, files, dirMade, writeVars, ubVars >>

\* what a read through pointer p sees: the curve, or at NULL what lies there
Deref(p, dat, g) == IF p = "null" THEN g ELSE dat

\* if (!equ(baseCSV->x[0], testCSV->x[0])) { ...; retVal = 1; goto end; }
checkMin ==
  /\ pc = "chkMin"
  /\ \E g \in GarbageData :
       LET b    == Deref(baseCSV, baseDat, g)
           t    == Deref(testCSV, testDat, g)
           wild == baseCSV = "null" \/ testCSV = "null"
           out  == ~InBounds(b, 1) \/ ~InBounds(t, 1)
       IN  /\ baseDat' = b
           /\ testDat' = t
           /\ nullDeref' = (nullDeref \/ wild)
           /\ oobRead' = (oobRead \/ out)
           /\ \/ \E xb \in ReadX(b, 1), xt \in ReadX(t, 1) :
                   IF ~equ(xb, xt)
                   THEN /\ log' = LogWrite(MsgMinX)
                        /\ retVal' = 1
                        /\ steps' = Append(steps, [no |-> 2, status |-> 1])
                        /\ pc' = "end"
                   ELSE /\ pc' = "chkMax"
                        /\ UNCHANGED << log, retVal, steps >>
              \/ /\ wild \/ out
                 /\ pc' = "fault"
                 /\ UNCHANGED << log, retVal, steps >>
  /\ UNCHANGED << inputVars, logState, logCloses, baseCSV, testCSV, heapVars,
                  bandVars, files, dirMade, writeVars, uafRead >>

\* if (!equ(baseCSV->x[baseCSV->n - 1], testCSV->x[testCSV->n - 1])) { ... }
checkMax ==
  /\ pc = "chkMax"
  /\ LET out == ~InBounds(baseDat, LastIndex(baseDat.n))
                  \/ ~InBounds(testDat, LastIndex(testDat.n))
     IN  /\ oobRead' = (oobRead \/ out)
         /\ \/ \E xb \in ReadX(baseDat, LastIndex(baseDat.n)),
                  xt \in ReadX(testDat, LastIndex(testDat.n)) :
                 IF ~equ(xb, xt)
                 THEN /\ log' = LogWrite(MsgMaxX)
                      /\ retVal' = 1
                      /\ steps' = Append(steps, [no |-> 2, status |-> 1])
                      /\ pc' = "end"
                 ELSE /\ steps' = Append(steps, [no |-> 2, status |-> 0])
                      /\ pc' = "band"
                      /\ UNCHANGED << log, retVal >>
            \/ /\ out
               /\ pc' = "fault"
               /\ UNCHANGED << log, retVal, steps >>
  /\ UNCHANGED << inputVars, logState, logCloses, curveVars, heapVars, bandVars,
                  files, dirMade, writeVars, nullDeref, uafRead >>

\* double* tube = tubeSize(*baseCSV, tolerances);
\* struct data lowerCurve = calculateLower(*baseCSV, tube);
\* struct data upperCurve = calculateUpper(*baseCSV, tube);
buildBand ==
  /\ pc = "band"
  /\ LET tube == tubeSize(baseDat, tol)
     IN  \E lo \in calculateLower(baseDat, tube), up \in calculateUpper(baseDat, tube) :
           /\ lowerCurve' = lo
           /\ upperCurve' = up
           /\ allocd' = allocd \cup {"tube"}
                          \cup (IF lo.n > 0 THEN {"lowerCurve"} ELSE {})
                          \cup (IF up.n > 0 THEN {"upperCurve"} ELSE {})
  /\ pc' = "chkBand"
  /\ UNCHANGED << inputVars, logVars, curveVars, freeCount, errorsDiff, retVal,
                  files, dirMade, steps, writeVars, ubVars >>

\* if (lowerCurve.n == 0 || upperCurve.n == 0) { ...; retVal = 1; goto end; }
checkBand ==
  /\ pc = "chkBand"
  /\ IF BandCollapsed(lowerCurve, upperCurve)
     THEN /\ log' = LogWrite(MsgBandCollapsed)
          /\ retVal' = 1
          /\ steps' = Append(steps, [no |-> 3, status |-> 1])
          /\ pc' = "end"
     ELSE /\ steps' = Append(steps, [no |-> 3, status |-> 0])
          /\ pc' = "validate"
          /\ UNCHANGED << log, retVal >>
  /\ UNCHANGED << inputVars, logState, logCloses, curveVars, heapVars, bandVars,
                  files, dirMade, writeVars, ubVars >>

\* retVal = validate(lowerCurve, upperCurve, *testCSV, &validateReport.errors);
\* if (retVal != 0) { ...; goto end; }
runValidate ==
  /\ pc = "validate"
  /\ \E r \in validate(lowerCurve, upperCurve, testDat) :
       /\ retVal' = r.ret
       /\ errorsDiff' = r.diff
       /\ steps' = Append(steps, [no |-> 4, status |-> r.ret])
       /\ IF Failed(r.ret)
          THEN /\ log' = LogWrite(MsgValidate)
               /\ pc' = "end"
          ELSE /\ pc' = "write"
               /\ UNCHANGED log
  /\ UNCHANGED << inputVars, logState, logCloses, curveVars, heapVars, lowerCurve,
                  upperCurve, files, dirMade, writeVars, ubVars >>

\* -------------------------------------------------------- writeToFile
\* entry of writeToFile(outputDirectory, FileName(k), data);
\* int rc_mkdir = mkdir_p(outDir); if (rc_mkdir != 0) { ...; return -1; }
wtf_mkdir ==
  /\ pc = "write"
  /\ wpc = "idle"
  /\ wdata' = DataFor(k)
  /\ wi' = 0
  /\ fname' = "unset"
  /\ \/ /\ dirMade' = TRUE
        /\ wpc' = "malloc"
        /\ UNCHANGED << log, wret >>
     \/ /\ ~dirMade
        /\ log' = LogWrite(<<"Error: Failed to create directory">>)
        /\ wret' = -1
        /\ wpc' = "ret"
        /\ UNCHANGED dirMade
  /\ UNCHANGED << pc, inputVars, logState, logCloses, curveVars, heapVars, bandVars,
                  retVal, files, steps, k, ubVars >>

\* fname = (char*)malloc(...); if (fname == NULL) { ...; return -1; }
wtf_malloc ==
  /\ pc = "write"
  /\ wpc = "malloc"
  /\ \/ /\ fname' = "live"
        /\ wpc' = "fopen"
        /\ UNCHANGED << log, wret >>
     \/ /\ fname' = "null"
        /\ log' = LogWrite(<<"Error: Failed to allocate memory for fname in writeToFile.">>)
        /\ wret' = -1
        /\ wpc' = "ret"
  /\ UNCHANGED << pc, inputVars, logState, logCloses, curveVars, heapVars, bandVars,
                  retVal, files, dirMade, steps, k, wi, wdata, ubVars >>

\* FILE *fil = fopen(fname, "w+"); free(fname);
\* if (fil == NULL) { fprintf(log_file, "...'%s'...", fname); return -1; }
\* The read of the freed buffer yields the old path or other bytes, or faults.
wtf_fopen ==
  /\ pc = "write"
  /\ wpc = "fopen"
  /\ fname' = "freed"
  /\ \/ /\ files' = [files EXCEPT ![FileName(k)] = [exists |-> TRUE, rows |-> << >>]]
        /\ wpc' = "body"
        /\ UNCHANGED << pc, log, wret, uafRead >>
     \/ /\ uafRead' = TRUE
        /\ \E arg \in {PathOf(outDir, FileName(k)), <<"?">>} :
             log' = LogWrite(<< <<"Error: Failed to open '%s' in writeToFile.", arg>> >>)
        /\ wret' = -1
        /\ wpc' = "ret"
        /\ UNCHANGED << pc, files >>
     \/ /\ uafRead' = TRUE
        /\ pc' = "fault"
        /\ UNCHANGED << log, wret, wpc, files >>
  /\ UNCHANGED << inputVars, logState, logCloses, curveVars, heapVars, bandVars,
                  retVal, dirMade, steps, k, wi, wdata, nullDeref, oobRead >>

RECURSIVE Rows(_, _)
\* for (i = 0; i < data->n; i++) fprintf(fil, "%lf,%lf\n", data->x[i], data->y[i]);
\* the rows written from loop index i on
Rows(dat, i) ==
  IF i < dat.n
  THEN << <<Fmt(dat.x[i + 1]), Fmt(dat.y[i + 1])>> >> \o Rows(dat, i + 1)
  ELSE << >>

\* fprintf(fil, "%s\n", "x,y"); the loop over the samples; fclose(fil); return 0;
wtf_body ==
  /\ pc = "write"
  /\ wpc = "body"
  /\ files' = [files EXCEPT ![FileName(k)].rows = (@ \o << <<"x", "y">> >>) \o Rows(DataFor(k), 0)]
  /\ wi' = DataFor(k).n
  /\ wret' = 0
  /\ wpc' = "ret"
  /\ UNCHANGED << pc, inputVars, logVars, curveVars, heapVars, bandVars, retVal,
                  dirMade, steps, k, fname, wdata, ubVars >>

\* retVal = writeToFile(...); if (retVal != 0) { fputs(...); goto end; }
afterWrite ==
  /\ pc = "write"
  /\ wpc = "ret"
  /\ retVal' = wret
  /\ steps' = Append(steps, [no |-> 4 + k, status |-> wret])
  /\ wpc' = "idle"
  /\ IF Failed(wret)
     THEN /\ log' = LogWrite(MsgWrite(k))
          /\ pc' = "end"
          /\ UNCHANGED k
     ELSE /\ IF k < 5
             THEN /\ k' = k + 1
                  /\ pc' = "write"
             ELSE /\ pc' = "free"
                  /\ UNCHANGED k
          /\ UNCHANGED log
  /\ UNCHANGED << inputVars, logState, logCloses, curveVars, heapVars, bandVars,
                  files, dirMade, fname, wi, wret, wdata, ubVars >>

\* void freeData (struct data *dat) { if (dat != NULL) { free ...; } }
freeData(p) == IF p # "null" THEN "freed" ELSE p

\* the releases freeData(p) adds to object o
Released(o, p) == IF p # "null" THEN freeCount[o] + 1 ELSE freeCount[o]

\* freeData(baseCSV); freeData(testCSV);
freeCurves ==
  /\ pc = "free"
  /\ baseCSV' = freeData(baseCSV)
  /\ testCSV' = freeData(testCSV)
  /\ freeCount' = [freeCount EXCEPT !["baseCSV"] = Released("baseCSV", baseCSV),
                                    !["testCSV"] = Released("testCSV", testCSV)]
  /\ pc' = "end"
  /\ UNCHANGED << inputVars, logVars, baseDat, testDat, allocd, bandVars, retVal,
                  files, dirMade, steps, writeVars, ubVars >>

\* end: fclose(log_file); return retVal;
endRun ==
  /\ pc = "end"
  /\ logState' = "closed"
  /\ logCloses' = logCloses + 1
  /\ pc' = "returned"
  /\ UNCHANGED << inputVars, log, curveVars, heapVars, bandVars, retVal, files,
                  dirMade, steps, writeVars, ubVars >>

writeToFile ==
  \/ wtf_mkdir
  \/ wtf_malloc
  \/ wtf_fopen
  \/ wtf_body

compareAndReport ==
  \/ init_log
  \/ newBase
  \/ newTest
  \/ checkMin
  \/ checkMax
  \/ buildBand
  \/ checkBand
  \/ runValidate
  \/ afterWrite
  \/ freeCurves
  \/ endRun

Next == compareAndReport \/ writeToFile

Spec == Init /\ [][Next]_vars

\* ------------------------------------------------------------- claims
\* step no has been executed
Ran(no) == \E i \in 1..Len(steps) : steps[i].no = no

\* step no has been executed and succeeded
Succeeded(no) == \E i \in 1..Len(steps) : steps[i].no = no /\ steps[i].status = 0

\* the status of the last step executed
LastStatus == steps[Len(steps)].status

NoFileWritten == \A f \in FileNames : ~files[f].exists /\ files[f].rows = << >>

\* neither the band, nor validate, nor a write has been started
NothingAfterAlignment ==
  /\ pc \notin {"band", "chkBand", "validate", "write", "free"}
  /\ \A no \in 3..9 : ~Ran(no)
  /\ allocd \cap {"tube", "lowerCurve", "upperCurve"} = {}
  /\ NoFileWritten

\* both curves were built by newData and are not empty
CurvesBuilt ==
  /\ baseCSV \in {"live", "freed"}
  /\ testCSV \in {"live", "freed"}
  /\ baseDat.n > 0
  /\ testDat.n > 0

MinDiff == Abs(baseDat.x[1] - testDat.x[1])

MaxDiff == Abs(baseDat.x[baseDat.n] - testDat.x[testDat.n])

AlignmentRejected == \E i \in 1..Len(steps) : steps[i].no = 2 /\ steps[i].status # 0

\* no undefined behaviour has occurred in the run so far
NoUB == ~nullDeref /\ ~oobRead /\ ~uafRead

\* neither input curve is empty
NonEmptyInputs == tRef.n > 0 /\ tTest.n > 0

\* C1: the steps run in the fixed order build, align, band, validate and the
\* five writes; once a step has failed no later step is executed, and the
\* status returned is the failed step's.
C1_FirstFailureAborts ==
  NonEmptyInputs =>
  /\ \A i \in 1..Len(steps) : steps[i].no = i
  /\ \A i \in 1..(Len(steps) - 1) : steps[i].status = 0
  /\ (Len(steps) > 0 /\ LastStatus # 0) => pc \in {"end", "returned"}
  /\ (pc = "returned" /\ Len(steps) > 0 /\ LastStatus # 0) => retVal = LastStatus

\* C2: compareAndReport returns 0 only if each of the five files was written
\* successfully in the run, and it returns 0 whenever validate and the five
\* writes succeeded, whether or not the error report holds violations.
C2_ZeroIffAllWritten ==
  pc = "returned" =>
    /\ retVal = 0 =>
         \A kk \in 1..5 :
           /\ Succeeded(4 + kk)
           /\ files[FileName(kk)].exists
           /\ Len(files[FileName(kk)].rows) = 1 + DataFor(kk).n
    /\ (Succeeded(4) /\ \A kk \in 1..5 : Succeeded(4 + kk)) => retVal = 0

\* a run that returned 0 with a report that holds violations
C2_Witness ==
  /\ pc = "returned"
  /\ retVal = 0
  /\ errorsDiff.n > 0
  /\ ~nullDeref
  /\ ~oobRead

\* C3 as stated: for built, non-empty curves, first or last x values that
\* differ by more than 1e-10 make the run return non-zero with no band, no
\* validate and no file; values within 1e-10 (<=) are not rejected by the
\* alignment check.
C3_Original ==
  CurvesBuilt =>
    /\ (MinDiff > EquTol \/ MaxDiff > EquTol) =>
         /\ pc \notin {"newBase", "newTest", "chkMin", "chkMax"} => NothingAfterAlignment
         /\ pc = "returned" => retVal # 0
    /\ (MinDiff <= EquTol /\ MaxDiff <= EquTol) => ~AlignmentRejected

\* C3 amended: for built, non-empty curves, first or last x values that differ
\* by 1e-10 or more make the run return non-zero with no band, no validate
\* and no file; values that differ by less than 1e-10 are not rejected by the
\* alignment check.
C3_StrictTolerance ==
  CurvesBuilt =>
    /\ (MinDiff >= EquTol \/ MaxDiff >= EquTol) =>
         /\ pc \notin {"newBase", "newTest", "chkMin", "chkMax"} =>
              NothingAfterAlignment /\ AlignmentRejected
         /\ pc = "returned" => retVal # 0
    /\ (MinDiff < EquTol /\ MaxDiff < EquTol) => ~AlignmentRejected

\* a run rejected for last x values exactly 1e-10 apart
C3_Witness ==
  /\ CurvesBuilt
  /\ MinDiff < EquTol
  /\ MaxDiff = EquTol
  /\ pc = "returned"
  /\ AlignmentRejected
  /\ retVal # 0

\* C4: an allocation failure (newData returning NULL, or the path buffer of
\* writeToFile) makes the run return non-zero, and the NULL result is never
\* dereferenced.
C4_AllocFailureHandled ==
  NonEmptyInputs =>
  /\ ~nullDeref
  /\ (pc = "returned" /\ (baseCSV = "null" \/ testCSV = "null" \/ fname = "null"))
       => retVal # 0

\* C5: with nReference = 0 or nTest = 0 the run returns non-zero, and no run
\* reads a curve element outside 0..n-1.
C5_EmptyCurveRejected ==
  ~nullDeref =>
  /\ ~oobRead
  /\ (pc = "returned" /\ (tRef.n = 0 \/ tTest.n = 0)) => retVal # 0

\* C6: when compareAndReport returns, every curve allocated in the run has
\* been released exactly once; none is ever released twice.
C6_ReleasedExactlyOnce ==
  (NonEmptyInputs /\ NoUB) =>
  /\ \A o \in Objs : freeCount[o] <= 1
  /\ pc = "returned" => \A o \in allocd : freeCount[o] = 1

\* C7: a run that returns non-zero has written at least one message to the
\* log; every message is written while the log is open; the log is closed
\* exactly once by the time the run returns and never more than once.
C7_LogDiscipline ==
  /\ \A i \in 1..Len(log) : log[i].at = "open"
  /\ logCloses <= 1
  /\ (logState = "closed") <=> (logCloses = 1)
  /\ pc = "returned" =>
       /\ logCloses = 1
       /\ retVal # 0 => Len(log) >= 1

\* a run that returned non-zero, with its message in the closed log
C7_Witness ==
  /\ pc = "returned"
  /\ retVal # 0
  /\ Len(log) = 1
  /\ logState = "closed"
  /\ baseCSV = "live"
  /\ testCSV = "live"

\* C8: once the band is built with an empty lower or upper curve the run
\* ends with a non-zero status, validate is not called and no file is
\* written; validate is only called with lower.n > 0 and upper.n > 0.
C8_CollapsedBandRejected ==
  /\ (pc = "validate" \/ Ran(4)) => (lowerCurve.n > 0 /\ upperCurve.n > 0)
  /\ (Ran(3) /\ (lowerCurve.n = 0 \/ upperCurve.n = 0)) =>
       /\ pc \in {"end", "returned"}
       /\ ~Ran(4)
       /\ NoFileWritten
       /\ pc = "returned" => retVal # 0

\* a run that returned non-zero because the lower curve alone was empty
C8_Witness ==
  /\ pc = "returned"
  /\ Ran(3)
  /\ lowerCurve.n = 0
  /\ upperCurve.n > 0
  /\ retVal # 0

\* the content the claim gives a written file: the header, then one row per
\* sample holding the sample's values
ExactRows(dat) == << <<"x", "y">> >> \o [i \in 1..dat.n |-> <<dat.x[i], dat.y[i]>>]

\* C9: when writeToFile returns 0 the file holds the header and the data's n
\* rows (x[i], y[i]) in index order; when it fails it returns -1 and has
\* written neither header nor row; the data is unchanged either way.
C9_FileHoldsData ==
  (wpc = "ret" /\ NonEmptyInputs /\ NoUB) =>
    /\ DataFor(k) = wdata
    /\ wret \in {0, -1}
    /\ wret = 0 => files[FileName(k)].rows = ExactRows(wdata)
    /\ wret = -1 => (~files[FileName(k)].exists /\ files[FileName(k)].rows = << >>)

\* C10: the path buffer fname of writeToFile is never read after free(fname).
C10_NoUseAfterFree == (NonEmptyInputs /\ ~nullDeref /\ ~oobRead) => ~uafRead

====
